---------------------------- MODULE Spec2Model ----------------------------
(***************************************************************************)
(* A model of useSubmitBridgeTransaction (the "Bridge Submission           *)
(* Sequencer").  submitBridgeTransaction is an async function: between two *)
(* awaits it runs to completion, so every action below is one synchronous  *)
(* segment of it, ending at the next await, at the return or at a throw.   *)
(* The collaborators (handleApprovalTx, handleBridgeTx, dispatch,          *)
(* addSourceToken, addDestToken, history.push) are the environment: what   *)
(* they return, and when their promises settle, is drawn with \E.          *)
(* Every collaborator call and every settlement is appended to the run's   *)
(* trace, so that orderings are state predicates.                          *)
(***************************************************************************)
EXTENDS Integers, Sequences, FiniteSets, TLC

VARIABLES
    pc,             \* run -> the await at which submitBridgeTransaction is suspended
    quoteResponse,  \* run -> the argument of submitBridgeTransaction
    approvalTxMeta, \* run -> the local variable approvalTxMeta
    bridgeTxMeta,   \* run -> the local variable bridgeTxMeta
    trace,          \* run -> the collaborator calls and settlements, in order
    inflight,       \* run -> the started, un-awaited promises that have not settled
    outcome         \* run -> the promise submitBridgeTransaction returned

vars == <<pc, quoteResponse, approvalTxMeta, bridgeTxMeta, trace, inflight, outcome>>

(* The bank page (BankPage) and what it uses: the hook useDebounce, the       *)
(* function getHarbourWallet and the fee-estimate effect.  Each is modelled   *)
(* under a specification of its own; the others' variables then stay idle.    *)
VARIABLES
    mounted,        \* the component that calls useDebounce is mounted
    value,          \* the argument value of the latest render
    delay,          \* the argument delay of the latest render (optional)
    debouncedValue, \* the state debouncedValue
    timers,         \* the pending timeouts: the value each captured, the ms left
    effectPending,  \* a render committed whose effect has not run yet
    elapsed,        \* ms since value or delay last changed (or since the mount)
    late,           \* of these, the ms passed with the effect or a due timeout waiting
    lastPublished,  \* the latest call of setDebouncedValue, and what held then
    superseded      \* the values whose timer a later change of value cancelled

hookVars ==
    <<mounted, value, delay, debouncedValue, timers, effectPending, elapsed, late,
      lastPublished, superseded>>

VARIABLES
    harbourKey,     \* browser.storage.local: the item harbourKey
    walletPc,       \* call -> the await at which getHarbourWallet is suspended
    walletKey,      \* call -> the local variable key
    wallet,         \* call -> the key of the Wallet the call returned
    writes          \* the keys written to storage, in order

walletVars == <<harbourKey, walletPc, walletKey, wallet, writes>>

VARIABLES
    accountInfo,    \* the promise of ramp.getAccountInfo
    isLoading,      \* BankPage state: isLoading
    bankDetails,    \* BankPage state: bankDetails (null, or with optional coordinates)
    amount,         \* BankPage state: amount
    debounceTimers, \* the amounts captured by the pending timeouts of useDebounce
    debounceEffectPending, \* a commit changed amount; the effect of useDebounce has not run yet
    debouncedAmount,\* BankPage: debouncedAmount
    currency,       \* BankPage state: currency
    feeEffectPending, \* a commit changed debouncedAmount or currency; the fee effect has not run yet
    feeLoading,     \* BankPage state: feeLoading
    feeResults,     \* BankPage state: feeResults
    error,          \* BankPage state: error
    requests,       \* the calls of ramp.estimateOnRampFee, in order
    arrivals        \* the requests in the order they settled

feeVars ==
    <<accountInfo, isLoading, bankDetails, amount, debounceTimers,
      debounceEffectPending, debouncedAmount, currency, feeEffectPending,
      feeLoading, feeResults, error, requests, arrivals>>

pageVars == <<hookVars, walletVars, feeVars>>

allVars == <<vars, pageVars>>

----------------------------------------------------------------------------
(* Bounds and value sets *)

\* Submission times are 1..MaxTime.
MaxTime == 2

Times == 1..MaxTime

\* The concurrent invocations of submitBridgeTransaction.
Runs == {"run1"}

\* An optional value: undefined, or a defined value.
Undefined == [defined |-> FALSE]

Some(v) == [defined |-> TRUE, val |-> v]

\* No invocation of submitBridgeTransaction.
NoRuns ==
    /\ pc = <<>>
    /\ quoteResponse = <<>>
    /\ approvalTxMeta = <<>>
    /\ bridgeTxMeta = <<>>
    /\ trace = <<>>
    /\ inflight = <<>>
    /\ outcome = <<>>

\* No component calls useDebounce.
NoHook ==
    /\ mounted = FALSE
    /\ value = Undefined
    /\ delay = Undefined
    /\ debouncedValue = Undefined
    /\ timers = {}
    /\ effectPending = FALSE
    /\ elapsed = 0
    /\ late = 0
    /\ lastPublished = Undefined
    /\ superseded = {}

\* No call of getHarbourWallet.
NoWallet ==
    /\ harbourKey = Undefined
    /\ walletPc = <<>>
    /\ walletKey = <<>>
    /\ wallet = <<>>
    /\ writes = <<>>

\* No bank page.
NoFee ==
    /\ accountInfo = "none"
    /\ isLoading = FALSE
    /\ bankDetails = Undefined
    /\ amount = Undefined
    /\ debounceTimers = {}
    /\ debounceEffectPending = FALSE
    /\ debouncedAmount = Undefined
    /\ currency = "none"
    /\ feeEffectPending = FALSE
    /\ feeLoading = FALSE
    /\ feeResults = Undefined
    /\ error = Undefined
    /\ requests = <<>>
    /\ arrivals = <<>>

\* zeroAddress() of ethereumjs-util.
zeroAddress == "0x0000000000000000000000000000000000000000"

Addresses == {zeroAddress, "0xa0b86991c6218b36c1d19d4a2e9eb0ce3606eb48"}

\* TransactionMeta.hash: undefined, the empty string, a transaction hash.
Hashes == {Undefined, Some(""), Some("0xAB")}

TxIds == {"tx1", "tx2"}

\* The errors a collaborator rejects with or throws.
Errors == {[message |-> "E1"], [message |-> "E2"]}

\* quote.refuel is an optional boolean.
Refuels == {Undefined, Some(FALSE), Some(TRUE)}

\* quote.bridges, the candidate bridge names.
BridgeLists == {<<>>, <<"across">>, <<"hop", "across">>}

Approvals == {Undefined, Some([spender |-> "0xspender"])}

DEFAULT_ROUTE == "DEFAULT_ROUTE"

Quotes ==
    [bridgeId : {"lifi"}, bridges : BridgeLists,
     srcChainId : {1}, destChainId : {10},
     srcAsset : [address : Addresses], destAsset : [address : Addresses],
     refuel : Refuels]

QuoteResponses == [quote : Quotes, approval : Approvals]

\* What handleBridgeTx resolves with.
TransactionMetas == [id : TxIds, hash : Hashes, time : Times]

\* What handleApprovalTx resolves with: only its id is read.
ApprovalMetas == [id : TxIds, hash : {Some("0xA1")}, time : {1}]

\* A synchronous collaborator call returns or throws.
SyncOutcomes == {[throws |-> FALSE]} \cup [throws : {TRUE}, error : Errors]

----------------------------------------------------------------------------
(* The expressions of submitBridgeTransaction *)

\* JavaScript truthiness of an optional string: undefined and "" are falsy.
TruthyString(s) == s.defined /\ s.val # ""

\* Boolean(x) of an optional boolean.
ToBoolean(b) == b.defined /\ b.val

\* Mutant: the last candidate bridge is taken, not the first.
FirstBridge_Last(bridges) ==
    IF Len(bridges) = 0 THEN Undefined ELSE Some(bridges[Len(bridges)])

\* bridges[0]: undefined on an empty list.
FirstBridge(bridges) == IF Len(bridges) = 0 THEN Undefined ELSE Some(bridges[1])

\* Mutant: the approval branch is taken whatever the quote holds.
HasApproval_Always(q) == TRUE

\* if (quoteResponse?.approval): an object is truthy, undefined is not.
HasApproval(q) == q.approval.defined

\* Mutant: the approval transaction's hash is passed on, not its id.
ApprovalTxId_ReadsHash(meta) ==
    IF meta.defined THEN Some(meta.val.hash.val) ELSE Undefined

\* approvalTxMeta?.id
ApprovalTxId(meta) == IF meta.defined THEN Some(meta.val.id) ELSE Undefined

\* Mutant: polling starts whether or not the bridge result has a hash.
ShouldPoll_Always(meta) == TRUE

\* if (bridgeTxMeta.hash)
ShouldPoll(meta) == TruthyString(meta.hash)

StatusRequest(q, meta) ==
    [bridgeId |-> q.quote.bridgeId,
     srcTxHash |-> meta.hash,
     bridge |-> FirstBridge(q.quote.bridges),
     srcChainId |-> q.quote.srcChainId,
     destChainId |-> q.quote.destChainId,
     quote |-> q.quote,
     refuel |-> ToBoolean(q.quote.refuel)]

\* Mutant: the poll's start time is not taken from the bridge result.
PollArgs_NoStartTime(q, meta) ==
    [statusRequest |-> StatusRequest(q, meta),
     quoteResponse |-> q,
     slippagePercentage |-> 0,
     startTime |-> 0]

\* The argument of startPollingForBridgeTxStatus.
PollArgs(q, meta) ==
    [statusRequest |-> StatusRequest(q, meta),
     quoteResponse |-> q,
     slippagePercentage |-> 0,
     startTime |-> meta.time]

\* Mutant: the source-token test reads the destination asset.
NeedsSourceToken_ReadsDest(q) == q.quote.destAsset.address # zeroAddress

\* if (quoteResponse.quote.srcAsset.address !== zeroAddress())
NeedsSourceToken(q) == q.quote.srcAsset.address # zeroAddress

\* Mutant: the destination-token test reads the source asset.
NeedsDestToken_ReadsSrc(q) == q.quote.srcAsset.address # zeroAddress

\* if (quoteResponse.quote.destAsset.address !== zeroAddress())
NeedsDestToken(q) == q.quote.destAsset.address # zeroAddress

\* The argument of handleApprovalTx.
ApprovalArgs(q) == [approval |-> q.approval, quoteResponse |-> q]

\* The argument of handleBridgeTx.
BridgeArgs(q, meta) == [quoteResponse |-> q, approvalTxId |-> ApprovalTxId(meta)]

\* The argument of setDefaultHomeActiveTabName.
ActiveTabArgs == [tabName |-> "activity"]

\* The argument of history.push.
NavigateArgs == [path |-> DEFAULT_ROUTE]

----------------------------------------------------------------------------
(* Trace events *)

Call(op, arg) == [ev |-> "call", op |-> op, arg |-> arg]

Resolve(op, val) == [ev |-> "resolve", op |-> op, arg |-> val]

Reject(op, err) == [ev |-> "reject", op |-> op, arg |-> err]

Throw(op, err) == [ev |-> "throw", op |-> op, arg |-> err]

Pending == [state |-> "pending"]

Fulfilled == [state |-> "fulfilled"]

Rejected(e) == [state |-> "rejected", reason |-> e]

----------------------------------------------------------------------------
Init ==
    /\ pc = [r \in Runs |-> "start"]
    /\ quoteResponse \in [Runs -> QuoteResponses]
    /\ approvalTxMeta = [r \in Runs |-> Undefined]
    /\ bridgeTxMeta = [r \in Runs |-> Undefined]
    /\ trace = [r \in Runs |-> <<>>]
    /\ inflight = [r \in Runs |-> {}]
    /\ outcome = [r \in Runs |-> Pending]
    /\ NoHook /\ NoWallet /\ NoFee

----------------------------------------------------------------------------
(* The operations of the collaborators, as they appear in the trace *)

opApproval == "handleApprovalTx"

opBridge == "handleBridgeTx"

opPoll == "startPollingForBridgeTxStatus"

opSrcToken == "addSourceToken"

opDestToken == "addDestToken"

opActiveTab == "setDefaultHomeActiveTabName"

opNavigate == "history.push"

\* The calls whose promise submitBridgeTransaction awaits, and those it does not.
AwaitedOps == {opApproval, opBridge, opDestToken, opActiveTab}

UnawaitedOps == {opPoll, opSrcToken}

----------------------------------------------------------------------------
(* The segments of submitBridgeTransaction *)

\* A throw inside the async function: its promise rejects and it runs no further.
Abort(r, events, e) ==
    /\ trace' = [trace EXCEPT ![r] = @ \o events]
    /\ outcome' = [outcome EXCEPT ![r] = Rejected(e)]
    /\ pc' = [pc EXCEPT ![r] = "done"]

\* Mutant: the tokens are registered before polling is started.
AfterBridge_TokensFirst(q, meta, pollOut, srcOut) ==
    LET poll == ShouldPoll(meta)
        src == NeedsSourceToken(q)
        e3 == IF poll THEN <<Call(opPoll, PollArgs(q, meta))>> ELSE <<>>
        e4 == IF src THEN <<Call(opSrcToken, q)>> ELSE <<>>
        s3 == IF poll THEN {opPoll} ELSE {}
        s4 == IF src THEN {opSrcToken} ELSE {}
    IN  IF src /\ srcOut.throws
        THEN [events |-> e4 \o <<Throw(opSrcToken, srcOut.error)>>,
              thrown |-> Some(srcOut.error), started |-> {}, next |-> "done"]
        ELSE IF poll /\ pollOut.throws
        THEN [events |-> e4 \o e3 \o <<Throw(opPoll, pollOut.error)>>,
              thrown |-> Some(pollOut.error), started |-> s4, next |-> "done"]
        ELSE IF NeedsDestToken(q)
        THEN [events |-> e4 \o e3 \o <<Call(opDestToken, q)>>,
              thrown |-> Undefined, started |-> s3 \cup s4, next |-> "awaitDest"]
        ELSE [events |-> e4 \o e3 \o <<Call(opActiveTab, ActiveTabArgs)>>,
              thrown |-> Undefined, started |-> s3 \cup s4, next |-> "awaitTab"]

\* Mutant: addDestToken is called without await, like addSourceToken.
AfterBridge_DestNotAwaited(q, meta, pollOut, srcOut) ==
    LET poll == ShouldPoll(meta)
        src == NeedsSourceToken(q)
        dest == NeedsDestToken(q)
        e3 == IF poll THEN <<Call(opPoll, PollArgs(q, meta))>> ELSE <<>>
        e4 == IF src THEN <<Call(opSrcToken, q)>> ELSE <<>>
        e5 == IF dest THEN <<Call(opDestToken, q)>> ELSE <<>>
        s3 == IF poll THEN {opPoll} ELSE {}
        s4 == IF src THEN {opSrcToken} ELSE {}
        s5 == IF dest THEN {opDestToken} ELSE {}
    IN  IF poll /\ pollOut.throws
        THEN [events |-> e3 \o <<Throw(opPoll, pollOut.error)>>,
              thrown |-> Some(pollOut.error), started |-> {}, next |-> "done"]
        ELSE IF src /\ srcOut.throws
        THEN [events |-> e3 \o e4 \o <<Throw(opSrcToken, srcOut.error)>>,
              thrown |-> Some(srcOut.error), started |-> s3, next |-> "done"]
        ELSE [events |-> e3 \o e4 \o e5 \o <<Call(opActiveTab, ActiveTabArgs)>>,
              thrown |-> Undefined, started |-> s3 \cup s4 \cup s5, next |-> "awaitTab"]

\* Steps 3 to 5 and the dispatch of step 6, run without suspension once
\* handleBridgeTx has resolved with meta: up to the next await or to a throw.
\* pollOut and srcOut are what the two un-awaited calls do when called.
AfterBridge(q, meta, pollOut, srcOut) ==
    LET poll == ShouldPoll(meta)
        src == NeedsSourceToken(q)
        e3 == IF poll THEN <<Call(opPoll, PollArgs(q, meta))>> ELSE <<>>
        e4 == IF src THEN <<Call(opSrcToken, q)>> ELSE <<>>
        s3 == IF poll THEN {opPoll} ELSE {}
        s4 == IF src THEN {opSrcToken} ELSE {}
    IN  IF poll /\ pollOut.throws
        THEN [events |-> e3 \o <<Throw(opPoll, pollOut.error)>>,
              thrown |-> Some(pollOut.error), started |-> {}, next |-> "done"]
        ELSE IF src /\ srcOut.throws
        THEN [events |-> e3 \o e4 \o <<Throw(opSrcToken, srcOut.error)>>,
              thrown |-> Some(srcOut.error), started |-> s3, next |-> "done"]
        ELSE IF NeedsDestToken(q)
        THEN [events |-> e3 \o e4 \o <<Call(opDestToken, q)>>,
              thrown |-> Undefined, started |-> s3 \cup s4, next |-> "awaitDest"]
        ELSE [events |-> e3 \o e4 \o <<Call(opActiveTab, ActiveTabArgs)>>,
              thrown |-> Undefined, started |-> s3 \cup s4, next |-> "awaitTab"]

\* Mutant: handleApprovalTx is called but not awaited before handleBridgeTx.
Submit_NoAwait(r) ==
    /\ pc[r] = "start"
    /\ LET q == quoteResponse[r]
           approve == IF HasApproval(q)
                      THEN <<Call(opApproval, ApprovalArgs(q))>> ELSE <<>>
       IN  trace' = [trace EXCEPT ![r] =
                        @ \o approve \o <<Call(opBridge, BridgeArgs(q, approvalTxMeta[r]))>>]
    /\ pc' = [pc EXCEPT ![r] = "awaitBridge"]
    /\ UNCHANGED <<quoteResponse, approvalTxMeta, bridgeTxMeta, inflight, outcome>>

\* The call of submitBridgeTransaction(quoteResponse), up to its first await.
Submit(r) ==
    /\ pc[r] = "start"
    /\ LET q == quoteResponse[r] IN
        IF HasApproval(q)
        THEN /\ trace' = [trace EXCEPT ![r] = @ \o <<Call(opApproval, ApprovalArgs(q))>>]
             /\ pc' = [pc EXCEPT ![r] = "awaitApproval"]
        ELSE /\ trace' = [trace EXCEPT ![r] =
                            @ \o <<Call(opBridge, BridgeArgs(q, approvalTxMeta[r]))>>]
             /\ pc' = [pc EXCEPT ![r] = "awaitBridge"]
    /\ UNCHANGED <<quoteResponse, approvalTxMeta, bridgeTxMeta, inflight, outcome>>

\* Mutant: approvalTxMeta is one variable of the hook, shared by its invocations.
ApprovalResolves_Shared(r) ==
    /\ pc[r] = "awaitApproval"
    /\ \E meta \in ApprovalMetas :
        /\ approvalTxMeta' = [o \in DOMAIN approvalTxMeta |-> Some(meta)]
        /\ trace' = [trace EXCEPT ![r] =
                        @ \o <<Resolve(opApproval, meta),
                               Call(opBridge, BridgeArgs(quoteResponse[r], Some(meta)))>>]
    /\ pc' = [pc EXCEPT ![r] = "awaitBridge"]
    /\ UNCHANGED <<quoteResponse, bridgeTxMeta, inflight, outcome>>

\* handleApprovalTx resolves: approvalTxMeta is set and handleBridgeTx is called.
ApprovalResolves(r) ==
    /\ pc[r] = "awaitApproval"
    /\ \E meta \in ApprovalMetas :
        /\ approvalTxMeta' = [approvalTxMeta EXCEPT ![r] = Some(meta)]
        /\ trace' = [trace EXCEPT ![r] =
                        @ \o <<Resolve(opApproval, meta),
                               Call(opBridge, BridgeArgs(quoteResponse[r], Some(meta)))>>]
    /\ pc' = [pc EXCEPT ![r] = "awaitBridge"]
    /\ UNCHANGED <<quoteResponse, bridgeTxMeta, inflight, outcome>>

\* Mutant: the rejection of handleApprovalTx is caught and the bridge
\* transaction is submitted all the same.
ApprovalRejects_Swallowed(r) ==
    /\ pc[r] = "awaitApproval"
    /\ \E e \in Errors :
        trace' = [trace EXCEPT ![r] =
                    @ \o <<Reject(opApproval, e),
                           Call(opBridge, BridgeArgs(quoteResponse[r], approvalTxMeta[r]))>>]
    /\ pc' = [pc EXCEPT ![r] = "awaitBridge"]
    /\ UNCHANGED <<quoteResponse, approvalTxMeta, bridgeTxMeta, inflight, outcome>>

\* handleApprovalTx rejects (or throws): the await rethrows.
ApprovalRejects(r) ==
    /\ pc[r] = "awaitApproval"
    /\ \E e \in Errors : Abort(r, <<Reject(opApproval, e)>>, e)
    /\ UNCHANGED <<quoteResponse, approvalTxMeta, bridgeTxMeta, inflight>>

\* handleBridgeTx resolves: steps 3 to 5 run up to the next await.
BridgeResolves(r) ==
    /\ pc[r] = "awaitBridge"
    /\ \E meta \in TransactionMetas, pollOut \in SyncOutcomes, srcOut \in SyncOutcomes :
        LET seg == AfterBridge(quoteResponse[r], meta, pollOut, srcOut)
            events == <<Resolve(opBridge, meta)>> \o seg.events
        IN  /\ bridgeTxMeta' = [bridgeTxMeta EXCEPT ![r] = Some(meta)]
            /\ inflight' = [inflight EXCEPT ![r] = @ \cup seg.started]
            /\ IF seg.thrown.defined
               THEN Abort(r, events, seg.thrown.val)
               ELSE /\ trace' = [trace EXCEPT ![r] = @ \o events]
                    /\ pc' = [pc EXCEPT ![r] = seg.next]
                    /\ UNCHANGED outcome
    /\ UNCHANGED <<quoteResponse, approvalTxMeta>>

\* Mutant: a first rejection of handleBridgeTx is answered by a second submission.
BridgeRejects_Retry(r) ==
    /\ pc[r] = "awaitBridge"
    /\ \E e \in Errors :
        IF \E i \in DOMAIN trace[r] : trace[r][i].ev = "reject"
        THEN Abort(r, <<Reject(opBridge, e)>>, e)
        ELSE /\ trace' = [trace EXCEPT ![r] =
                            @ \o <<Reject(opBridge, e),
                                   Call(opBridge,
                                        BridgeArgs(quoteResponse[r], approvalTxMeta[r]))>>]
             /\ UNCHANGED <<pc, outcome>>
    /\ UNCHANGED <<quoteResponse, approvalTxMeta, bridgeTxMeta, inflight>>

\* Mutant: the rejection of handleBridgeTx is caught and the run goes on to step 6.
BridgeRejects_Swallowed(r) ==
    /\ pc[r] = "awaitBridge"
    /\ \E e \in Errors :
        trace' = [trace EXCEPT ![r] =
                    @ \o <<Reject(opBridge, e), Call(opActiveTab, ActiveTabArgs)>>]
    /\ pc' = [pc EXCEPT ![r] = "awaitTab"]
    /\ UNCHANGED <<quoteResponse, approvalTxMeta, bridgeTxMeta, inflight, outcome>>

\* handleBridgeTx rejects (or throws): the await rethrows.
BridgeRejects(r) ==
    /\ pc[r] = "awaitBridge"
    /\ \E e \in Errors : Abort(r, <<Reject(opBridge, e)>>, e)
    /\ UNCHANGED <<quoteResponse, approvalTxMeta, bridgeTxMeta, inflight>>

\* addDestToken resolves: the active tab is dispatched and awaited.
DestTokenResolves(r) ==
    /\ pc[r] = "awaitDest"
    /\ trace' = [trace EXCEPT ![r] =
                    @ \o <<Resolve(opDestToken, Undefined), Call(opActiveTab, ActiveTabArgs)>>]
    /\ pc' = [pc EXCEPT ![r] = "awaitTab"]
    /\ UNCHANGED <<quoteResponse, approvalTxMeta, bridgeTxMeta, inflight, outcome>>

\* Mutant: the rejection of addDestToken is caught and the run goes on to step 6.
DestTokenRejects_Swallowed(r) ==
    /\ pc[r] = "awaitDest"
    /\ \E e \in Errors :
        trace' = [trace EXCEPT ![r] =
                    @ \o <<Reject(opDestToken, e), Call(opActiveTab, ActiveTabArgs)>>]
    /\ pc' = [pc EXCEPT ![r] = "awaitTab"]
    /\ UNCHANGED <<quoteResponse, approvalTxMeta, bridgeTxMeta, inflight, outcome>>

\* addDestToken rejects (or throws): the await rethrows.
DestTokenRejects(r) ==
    /\ pc[r] = "awaitDest"
    /\ \E e \in Errors : Abort(r, <<Reject(opDestToken, e)>>, e)
    /\ UNCHANGED <<quoteResponse, approvalTxMeta, bridgeTxMeta, inflight>>

\* The setDefaultHomeActiveTabName dispatch resolves: history.push is called.
\* It is a synchronous call outside any try: when it returns the run is
\* fulfilled, when it throws the run is rejected with what it threw.
ActiveTabResolves(r) ==
    /\ pc[r] = "awaitTab"
    /\ \E navOut \in SyncOutcomes :
        IF navOut.throws
        THEN Abort(r, <<Resolve(opActiveTab, Undefined),
                        Call(opNavigate, NavigateArgs),
                        Throw(opNavigate, navOut.error)>>, navOut.error)
        ELSE /\ trace' = [trace EXCEPT ![r] =
                            @ \o <<Resolve(opActiveTab, Undefined),
                                   Call(opNavigate, NavigateArgs)>>]
             /\ outcome' = [outcome EXCEPT ![r] = Fulfilled]
             /\ pc' = [pc EXCEPT ![r] = "done"]
    /\ UNCHANGED <<quoteResponse, approvalTxMeta, bridgeTxMeta, inflight>>

\* Mutant: the navigation sits in a finally block and happens on rejection too.
ActiveTabRejects_NavigatesAnyway(r) ==
    /\ pc[r] = "awaitTab"
    /\ \E e \in Errors :
        Abort(r, <<Reject(opActiveTab, e), Call(opNavigate, NavigateArgs)>>, e)
    /\ UNCHANGED <<quoteResponse, approvalTxMeta, bridgeTxMeta, inflight>>

\* Mutant: the rejection of the dispatch is caught; the run navigates and returns.
ActiveTabRejects_Swallowed(r) ==
    /\ pc[r] = "awaitTab"
    /\ \E e \in Errors :
        trace' = [trace EXCEPT ![r] =
                    @ \o <<Reject(opActiveTab, e), Call(opNavigate, NavigateArgs)>>]
    /\ outcome' = [outcome EXCEPT ![r] = Fulfilled]
    /\ pc' = [pc EXCEPT ![r] = "done"]
    /\ UNCHANGED <<quoteResponse, approvalTxMeta, bridgeTxMeta, inflight>>

\* The setDefaultHomeActiveTabName dispatch rejects (or throws).
ActiveTabRejects(r) ==
    /\ pc[r] = "awaitTab"
    /\ \E e \in Errors : Abort(r, <<Reject(opActiveTab, e)>>, e)
    /\ UNCHANGED <<quoteResponse, approvalTxMeta, bridgeTxMeta, inflight>>

\* Mutant: a run suspended on addDestToken is resumed by the resolution of an
\* un-awaited promise, as if it awaited the wrong promise.
UnawaitedResolves_Resumes(r) ==
    /\ \E op \in inflight[r] :
        /\ inflight' = [inflight EXCEPT ![r] = @ \ {op}]
        /\ IF pc[r] = "awaitDest"
           THEN /\ trace' = [trace EXCEPT ![r] =
                               @ \o <<Resolve(op, Undefined), Call(opActiveTab, ActiveTabArgs)>>]
                /\ pc' = [pc EXCEPT ![r] = "awaitTab"]
           ELSE /\ trace' = [trace EXCEPT ![r] = @ \o <<Resolve(op, Undefined)>>]
                /\ UNCHANGED pc
    /\ UNCHANGED <<quoteResponse, approvalTxMeta, bridgeTxMeta, outcome>>

\* A started, un-awaited promise (the poll dispatch, addSourceToken) resolves.
\* Nothing in submitBridgeTransaction waits for it or reads it.
UnawaitedResolves(r) ==
    /\ \E op \in inflight[r] :
        /\ inflight' = [inflight EXCEPT ![r] = @ \ {op}]
        /\ trace' = [trace EXCEPT ![r] = @ \o <<Resolve(op, Undefined)>>]
    /\ UNCHANGED <<pc, quoteResponse, approvalTxMeta, bridgeTxMeta, outcome>>

\* Mutant: the run observes the rejection of an un-awaited promise, as if the
\* call had been awaited: a run still in progress aborts with its error.
UnawaitedRejects_Observed(r) ==
    /\ \E op \in inflight[r], e \in Errors :
        /\ inflight' = [inflight EXCEPT ![r] = @ \ {op}]
        /\ IF pc[r] = "done"
           THEN /\ trace' = [trace EXCEPT ![r] = @ \o <<Reject(op, e)>>]
                /\ UNCHANGED <<pc, outcome>>
           ELSE Abort(r, <<Reject(op, e)>>, e)
    /\ UNCHANGED <<quoteResponse, approvalTxMeta, bridgeTxMeta>>

\* A started, un-awaited promise rejects: no handler of the run is attached.
UnawaitedRejects(r) ==
    /\ \E op \in inflight[r], e \in Errors :
        /\ inflight' = [inflight EXCEPT ![r] = @ \ {op}]
        /\ trace' = [trace EXCEPT ![r] = @ \o <<Reject(op, e)>>]
    /\ UNCHANGED <<pc, quoteResponse, approvalTxMeta, bridgeTxMeta, outcome>>

Next ==
    \/ \E r \in DOMAIN pc : Submit(r) /\ UNCHANGED pageVars
    \/ \E r \in DOMAIN pc : ApprovalResolves(r) /\ UNCHANGED pageVars
    \/ \E r \in DOMAIN pc : ApprovalRejects(r) /\ UNCHANGED pageVars
    \/ \E r \in DOMAIN pc : BridgeResolves(r) /\ UNCHANGED pageVars
    \/ \E r \in DOMAIN pc : BridgeRejects(r) /\ UNCHANGED pageVars
    \/ \E r \in DOMAIN pc : DestTokenResolves(r) /\ UNCHANGED pageVars
    \/ \E r \in DOMAIN pc : DestTokenRejects(r) /\ UNCHANGED pageVars
    \/ \E r \in DOMAIN pc : ActiveTabResolves(r) /\ UNCHANGED pageVars
    \/ \E r \in DOMAIN pc : ActiveTabRejects(r) /\ UNCHANGED pageVars
    \/ \E r \in DOMAIN pc : UnawaitedResolves(r) /\ UNCHANGED pageVars
    \/ \E r \in DOMAIN pc : UnawaitedRejects(r) /\ UNCHANGED pageVars

Spec == Init /\ [][Next]_vars

\* Two invocations of submitBridgeTransaction, the second started while the
\* first is under way.  Each call of the function has its own parameter and
\* locals; the hook holds no state of its own.
OverlapRuns == {"run1", "run2"}

\* The quotes of the overlapping invocations: the one that takes every awaited
\* optional step (approval, destination token) and the one that takes none.
OverlapQuotes ==
    {q \in QuoteResponses :
        /\ q.quote.bridges = <<"across">>
        /\ q.quote.refuel = Undefined
        /\ q.quote.srcAsset.address = zeroAddress
        /\ q.approval.defined <=> q.quote.destAsset.address # zeroAddress}

InitOverlap ==
    /\ pc = [r \in OverlapRuns |-> "start"]
    /\ quoteResponse \in [OverlapRuns -> OverlapQuotes]
    /\ approvalTxMeta = [r \in OverlapRuns |-> Undefined]
    /\ bridgeTxMeta = [r \in OverlapRuns |-> Undefined]
    /\ trace = [r \in OverlapRuns |-> <<>>]
    /\ inflight = [r \in OverlapRuns |-> {}]
    /\ outcome = [r \in OverlapRuns |-> Pending]
    /\ NoHook /\ NoWallet /\ NoFee

SpecOverlap == InitOverlap /\ [][Next]_vars

\* The awaited collaborator call of run r settles, one way or the other.
AwaitedSettles(r) ==
    \/ ApprovalResolves(r)
    \/ ApprovalRejects(r)
    \/ BridgeResolves(r)
    \/ BridgeRejects(r)
    \/ DestTokenResolves(r)
    \/ DestTokenRejects(r)
    \/ ActiveTabResolves(r)
    \/ ActiveTabRejects(r)

\* The behaviours in which every awaited collaborator call eventually settles.
\* The event loop resumes a suspended async function once the promise it awaits
\* has settled; that the promise settles is the collaborator's part.
FairSpec == Spec /\ \A r \in Runs : WF_vars(AwaitedSettles(r))

----------------------------------------------------------------------------
(* Reading a run's trace *)

\* The positions of the trace of r that hold an event ev of operation op.
Events(r, ev, op) ==
    {i \in DOMAIN trace[r] : trace[r][i].ev = ev /\ trace[r][i].op = op}

Calls(r, op) == Events(r, "call", op)

NumCalls(r, op) == Cardinality(Calls(r, op))

\* The operations called in run r, in call order.
CallOrder(r) ==
    LET calls == SelectSeq(trace[r], LAMBDA e : e.ev = "call")
    IN  [i \in DOMAIN calls |-> calls[i].op]

\* Every call of op in r comes after some event ev of operation before.
OnlyAfter(r, op, ev, before) ==
    \A j \in Calls(r, op) : \E i \in Events(r, ev, before) : i < j

\* handleBridgeTx has resolved in r.
BridgeResolved(r) == bridgeTxMeta[r].defined

\* Run r has got past step 3: the bridge resolved and dispatch did not throw.
ReachedStep4(r) == BridgeResolved(r) /\ Events(r, "throw", opPoll) = {}

\* Run r has got past step 4 as well.
ReachedStep5(r) == ReachedStep4(r) /\ Events(r, "throw", opSrcToken) = {}

----------------------------------------------------------------------------
(* C1 *)

\* C1: for a quote with approval present, a run that has started has called
\* handleApprovalTx exactly once (with the quote's approval), and every call of
\* handleBridgeTx comes after the resolution of that approval call.
C1_ApprovalOnceBeforeBridge ==
    \A r \in DOMAIN pc :
        quoteResponse[r].approval.defined =>
            /\ pc[r] # "start" => NumCalls(r, opApproval) = 1
            /\ NumCalls(r, opApproval) <= 1
            /\ \A j \in Calls(r, opBridge) :
                \E i \in Calls(r, opApproval), k \in Events(r, "resolve", opApproval) :
                    i < k /\ k < j

C1_Witness ==
    \E r \in DOMAIN pc :
        /\ quoteResponse[r].approval.defined
        /\ Calls(r, opBridge) # {}
        /\ pc[r] = "done"

\* C2: for a quote with approval absent, handleApprovalTx is never called, and
\* handleBridgeTx is called (once the run has started) with approvalTxId undefined.
C2_NoApprovalNoTxId ==
    \A r \in DOMAIN pc :
        ~quoteResponse[r].approval.defined =>
            /\ NumCalls(r, opApproval) = 0
            /\ pc[r] # "start" => NumCalls(r, opBridge) = 1
            /\ \A j \in Calls(r, opBridge) : trace[r][j].arg.approvalTxId = Undefined

C2_Witness ==
    \E r \in DOMAIN pc :
        /\ ~quoteResponse[r].approval.defined
        /\ Calls(r, opBridge) # {}
        /\ outcome[r] = Fulfilled

\* The collaborator calls that come after handleBridgeTx.
LaterOps == {opPoll, opSrcToken, opDestToken, opActiveTab, opNavigate}

\* C3: if handleBridgeTx rejects with e, the promise of submitBridgeTransaction
\* rejects with e and no later step runs: no poll dispatch, no token
\* registration, no setActiveTab dispatch, no navigation.
C3_BridgeRejectionPropagates ==
    \A r \in DOMAIN pc :
        \A i \in Events(r, "reject", opBridge) :
            /\ outcome[r] = Rejected(trace[r][i].arg)
            /\ pc[r] = "done"
            /\ \A op \in LaterOps : NumCalls(r, op) = 0

C3_Witness ==
    \E r \in DOMAIN pc :
        /\ Events(r, "reject", opBridge) # {}
        /\ quoteResponse[r].approval.defined
        /\ NeedsSourceToken(quoteResponse[r])
        /\ NeedsDestToken(quoteResponse[r])

\* The poll dispatches of r all carry slippage 0 and the bridge result's time.
PollCarriesTime(r) ==
    \A j \in Calls(r, opPoll) :
        /\ trace[r][j].arg.slippagePercentage = 0
        /\ trace[r][j].arg.startTime = bridgeTxMeta[r].val.time

\* C4 as stated: for every bridge result whose hash is defined (not undefined),
\* exactly one poll dispatch occurs, with slippage 0 and the result's time.
\* The empty string is defined and falsy: no dispatch occurs for it.
C4_Original_DefinedHashPolls ==
    \A r \in DOMAIN pc :
        (BridgeResolved(r) /\ bridgeTxMeta[r].val.hash.defined) =>
            NumCalls(r, opPoll) = 1 /\ PollCarriesTime(r)

\* C4, amended: for every bridge result whose hash is a non-empty string,
\* exactly one poll dispatch occurs, with slippagePercentage = 0 and startTime
\* equal to the time of the bridge TransactionMeta.
C4_TruthyHashPollsOnce ==
    \A r \in DOMAIN pc :
        (BridgeResolved(r) /\ bridgeTxMeta[r].val.hash.defined
            /\ bridgeTxMeta[r].val.hash.val # "") =>
            NumCalls(r, opPoll) = 1 /\ PollCarriesTime(r)

C4_Witness ==
    \E r \in DOMAIN pc :
        /\ BridgeResolved(r)
        /\ bridgeTxMeta[r].val.hash = Some("0xAB")
        /\ bridgeTxMeta[r].val.time = MaxTime
        /\ NumCalls(r, opPoll) = 1
        /\ outcome[r] = Fulfilled

\* C5: a poll dispatch has occurred only if handleBridgeTx returned a
\* TransactionMeta with a defined hash, which is the srcTxHash of the dispatched
\* StatusRequest; when the hash is undefined no poll dispatch ever occurs.
C5_PollOnlyWithHash ==
    \A r \in DOMAIN pc :
        /\ \A j \in Calls(r, opPoll) :
            /\ BridgeResolved(r)
            /\ bridgeTxMeta[r].val.hash.defined
            /\ trace[r][j].arg.statusRequest.srcTxHash = bridgeTxMeta[r].val.hash
            /\ \E k \in Events(r, "resolve", opBridge) : k < j
        /\ (BridgeResolved(r) /\ ~bridgeTxMeta[r].val.hash.defined) =>
            NumCalls(r, opPoll) = 0

C5_Witness ==
    \E r \in DOMAIN pc :
        /\ BridgeResolved(r)
        /\ ~bridgeTxMeta[r].val.hash.defined
        /\ outcome[r] = Fulfilled

\* C6: if destAsset.address is the zero address, addDestToken is never called;
\* for any other address it is called at most once, exactly once in a run that
\* reaches step 5, and its promise has resolved before the setActiveTab dispatch.
C6_DestTokenAwaitedBeforeTab ==
    \A r \in DOMAIN pc :
        IF quoteResponse[r].quote.destAsset.address = zeroAddress
        THEN NumCalls(r, opDestToken) = 0
        ELSE /\ NumCalls(r, opDestToken) <= 1
             /\ ReachedStep5(r) => NumCalls(r, opDestToken) = 1
             /\ \A j \in Calls(r, opActiveTab) :
                 \E i \in Calls(r, opDestToken), k \in Events(r, "resolve", opDestToken) :
                     i < k /\ k < j

C6_Witness ==
    \E r \in DOMAIN pc :
        /\ quoteResponse[r].quote.destAsset.address # zeroAddress
        /\ quoteResponse[r].quote.srcAsset.address = zeroAddress
        /\ Calls(r, opActiveTab) # {}

\* The event that follows position i of the trace of r is a call of op.
NextIsCall(r, i, op) ==
    /\ i < Len(trace[r])
    /\ trace[r][i + 1].ev = "call"
    /\ trace[r][i + 1].op = op

\* C7: if srcAsset.address is the zero address, addSourceToken is never called;
\* for any other address it is called exactly once in a run that reaches step 4,
\* and the run proceeds without waiting: unless the call throws, the very next
\* event is the call of step 5 or of step 6, whatever becomes of the promise.
C7_SourceTokenNotAwaited ==
    \A r \in DOMAIN pc :
        IF quoteResponse[r].quote.srcAsset.address = zeroAddress
        THEN NumCalls(r, opSrcToken) = 0
        ELSE /\ NumCalls(r, opSrcToken) <= 1
             /\ ReachedStep4(r) => NumCalls(r, opSrcToken) = 1
             /\ \A i \in Calls(r, opSrcToken) :
                 \/ i + 1 \in Events(r, "throw", opSrcToken)
                 \/ NextIsCall(r, i, opDestToken)
                 \/ NextIsCall(r, i, opActiveTab)

C7_Witness ==
    \E r \in DOMAIN pc :
        /\ quoteResponse[r].quote.srcAsset.address # zeroAddress
        /\ quoteResponse[r].quote.destAsset.address = zeroAddress
        /\ outcome[r] = Fulfilled
        /\ opSrcToken \in inflight[r]

\* Position i of the trace of r is a failure of one of steps 1 to 5.
FailureOfSteps1to5(r, i) ==
    /\ trace[r][i].ev \in {"reject", "throw"}
    /\ trace[r][i].op \in {opApproval, opBridge, opPoll, opSrcToken, opDestToken}

\* Position i of the trace of r is a failure the run observes: the rejection of
\* an awaited call of steps 1, 2, 5, or a synchronous throw of a call of steps 3, 4.
ObservedFailure(r, i) ==
    \/ trace[r][i].ev = "reject" /\ trace[r][i].op \in {opApproval, opBridge, opDestToken}
    \/ trace[r][i].ev = "throw" /\ trace[r][i].op \in {opPoll, opSrcToken}

\* No setActiveTab dispatch and no navigation after position i of the trace of r.
NoRoutingAfter(r, i) ==
    \A j \in Calls(r, opActiveTab) \cup Calls(r, opNavigate) : j < i

\* C8 as stated: after a rejection arising in any of steps 1 to 5, the
\* setActiveTab dispatch and the navigation never occur.
C8_Original_AnyRejectionAborts ==
    \A r \in DOMAIN pc :
        \A i \in DOMAIN trace[r] : FailureOfSteps1to5(r, i) => NoRoutingAfter(r, i)

\* C8, amended: the rejection of an awaited step (approval submission, bridge
\* submission, destination-token registration) or a synchronous throw of the
\* poll dispatch or of the source-token registration call aborts the sequence:
\* the run is over, rejected with that error, and neither the setActiveTab
\* dispatch nor the navigation occurs after it.
C8_ObservedFailureAborts ==
    \A r \in DOMAIN pc :
        \A i \in DOMAIN trace[r] :
            ObservedFailure(r, i) =>
                /\ pc[r] = "done"
                /\ outcome[r] = Rejected(trace[r][i].arg)
                /\ NoRoutingAfter(r, i)
                /\ NumCalls(r, opNavigate) = 0

C8_Witness ==
    \E r \in DOMAIN pc :
        /\ Events(r, "reject", opDestToken) # {}
        /\ NumCalls(r, opPoll) = 1
        /\ NumCalls(r, opSrcToken) = 1

\* No awaited collaborator call of r has rejected.
AwaitedSucceed(r) ==
    \A i \in DOMAIN trace[r] :
        ~(trace[r][i].ev = "reject" /\ trace[r][i].op \in AwaitedOps)

\* The run r is over, fulfilled, with setActiveTab dispatched and navigation done.
CompletedWithRouting(r) ==
    /\ outcome[r] = Fulfilled
    /\ NumCalls(r, opActiveTab) = 1
    /\ NumCalls(r, opNavigate) = 1

\* C9 as stated: in every finished run where the source-token registration or
\* the poll kickoff fails (in whatever way) and the awaited collaborators
\* succeed, the run is fulfilled and has dispatched setActiveTab and navigated.
C9_Original_AnyFailureUnobserved ==
    \A r \in DOMAIN pc :
        (/\ pc[r] = "done"
         /\ AwaitedSucceed(r)
         /\ \E i \in DOMAIN trace[r] :
              /\ trace[r][i].ev \in {"reject", "throw"}
              /\ trace[r][i].op \in UnawaitedOps)
        => CompletedWithRouting(r)

\* C9, amended: a rejection of the promise returned by the source-token
\* registration or by the poll dispatch is never observable through the run's
\* promise: in every finished run where such a rejection happens, the awaited
\* collaborators succeed, neither call throws synchronously and history.push
\* returns, the run is fulfilled and has dispatched setActiveTab and navigated.
C9_UnawaitedRejectionUnobserved ==
    \A r \in DOMAIN pc :
        (/\ pc[r] = "done"
         /\ AwaitedSucceed(r)
         /\ \A op \in UnawaitedOps : Events(r, "throw", op) = {}
         /\ Events(r, "throw", opNavigate) = {}
         /\ \E op \in UnawaitedOps : Events(r, "reject", op) # {})
        => CompletedWithRouting(r)

C9_Witness ==
    \E r \in DOMAIN pc :
        /\ pc[r] = "done"
        /\ Events(r, "reject", opSrcToken) # {}
        /\ Events(r, "reject", opPoll) # {}
        /\ \E i \in Events(r, "reject", opSrcToken) :
            \E j \in Calls(r, opNavigate) : i < j
        /\ CompletedWithRouting(r)

\* The calls of the full scenario, in order.
FullOrder ==
    <<opApproval, opBridge, opPoll, opSrcToken, opDestToken, opActiveTab, opNavigate>>

\* The quote of r has an approval and two non-native assets.
FullQuote(r) ==
    /\ quoteResponse[r].approval.defined
    /\ quoteResponse[r].quote.srcAsset.address # zeroAddress
    /\ quoteResponse[r].quote.destAsset.address # zeroAddress

\* C10 as stated: with approval present, both assets non-native and a bridge
\* result whose hash is defined, the calls of a successful run are exactly
\* FullOrder.  With the empty string as hash the poll dispatch is missing.
C10_Original_DefinedHashOrder ==
    \A r \in DOMAIN pc :
        (/\ FullQuote(r)
         /\ outcome[r] = Fulfilled
         /\ bridgeTxMeta[r].val.hash.defined)
        => CallOrder(r) = FullOrder

\* C10, amended: with approval present, both assets non-native and a bridge
\* result whose hash is a non-empty string, the calls of a successful run are
\* exactly FullOrder, each once; addDestToken is called right after
\* addSourceToken (which is not awaited) and has resolved before setActiveTab.
C10_FullScenarioOrder ==
    \A r \in DOMAIN pc :
        (/\ FullQuote(r)
         /\ outcome[r] = Fulfilled
         /\ bridgeTxMeta[r].val.hash.defined
         /\ bridgeTxMeta[r].val.hash.val # "")
        => /\ CallOrder(r) = FullOrder
           /\ \A i \in Calls(r, opSrcToken) : NextIsCall(r, i, opDestToken)
           /\ \A j \in Calls(r, opActiveTab) :
               \E k \in Events(r, "resolve", opDestToken) : k < j
           /\ \A j \in Calls(r, opNavigate) :
               \E k \in Events(r, "resolve", opActiveTab) : k < j

C10_Witness ==
    \E r \in DOMAIN pc :
        /\ FullQuote(r)
        /\ outcome[r] = Fulfilled
        /\ bridgeTxMeta[r].val.hash = Some("0xAB")
        /\ CallOrder(r) = FullOrder

\* The positions of the trace of r at which the promise of op settles.
Settles(r, op) == Events(r, "resolve", op) \cup Events(r, "reject", op)

\* At position j of the trace of r a call of op is in flight: made and not settled.
InFlightAt(r, op, j) ==
    \E i \in Calls(r, op) : i < j /\ ~\E k \in Settles(r, op) : i < k /\ k < j

\* C11: no run navigates while its destination-token registration is in flight,
\* and addDestToken is never called after the navigation; the source-token
\* registration has no such guarantee (C11_Witness: navigation done, the run
\* fulfilled, and addSourceToken still in flight).
C11_NoNavigationWhileDestInFlight ==
    \A r \in DOMAIN pc :
        \A j \in Calls(r, opNavigate) :
            /\ ~InFlightAt(r, opDestToken, j)
            /\ \A i \in Calls(r, opDestToken) : i < j
            /\ opDestToken \notin inflight[r]

C11_Witness ==
    \E r \in DOMAIN pc :
        /\ outcome[r] = Fulfilled
        /\ quoteResponse[r].quote.destAsset.address # zeroAddress
        /\ \E j \in Calls(r, opNavigate) :
            /\ InFlightAt(r, opSrcToken, j)
            /\ Settles(r, opDestToken) # {}
        /\ opSrcToken \in inflight[r]
        /\ Settles(r, opSrcToken) = {}

\* s is an initial part of t.
IsPrefix(s, t) == Len(s) <= Len(t) /\ SubSeq(t, 1, Len(s)) = s

\* The quote of r has no approval and a native destination asset, and
\* handleBridgeTx has resolved without a hash.
MinimalScenario(r) ==
    /\ ~quoteResponse[r].approval.defined
    /\ quoteResponse[r].quote.destAsset.address = zeroAddress
    /\ BridgeResolved(r)
    /\ ~bridgeTxMeta[r].val.hash.defined

\* C12 as stated: in the minimal scenario the only calls of the run are
\* handleBridgeTx, then setActiveTab, then navigate, and no other call.
\* A non-native source asset adds the call of addSourceToken.
C12_Original_OnlyBridgeTabNavigate ==
    \A r \in DOMAIN pc :
        MinimalScenario(r) =>
            /\ IsPrefix(CallOrder(r), <<opBridge, opActiveTab, opNavigate>>)
            /\ outcome[r] = Fulfilled =>
                CallOrder(r) = <<opBridge, opActiveTab, opNavigate>>

\* The calls of the minimal scenario, in order, for the quote of r.
MinimalOrder(r) ==
    <<opBridge>>
    \o (IF quoteResponse[r].quote.srcAsset.address = zeroAddress
        THEN <<>> ELSE <<opSrcToken>>)
    \o <<opActiveTab, opNavigate>>

\* C12, amended: in the minimal scenario the only calls of the run are
\* handleBridgeTx, then addSourceToken if the source asset is not native, then
\* setActiveTab, then navigate: no approval submit, no poll dispatch, no
\* destination-token registration and no other call.
C12_MinimalScenarioCalls ==
    \A r \in DOMAIN pc :
        MinimalScenario(r) =>
            /\ IsPrefix(CallOrder(r), MinimalOrder(r))
            /\ outcome[r] = Fulfilled => CallOrder(r) = MinimalOrder(r)

C12_Witness ==
    \E r \in DOMAIN pc :
        /\ MinimalScenario(r)
        /\ outcome[r] = Fulfilled
        /\ CallOrder(r) = <<opBridge, opSrcToken, opActiveTab, opNavigate>>

\* C13: if handleApprovalTx rejects with e, the promise of
\* submitBridgeTransaction rejects with e and handleBridgeTx is never called;
\* nor do polling, token registration, the setActiveTab dispatch or navigation occur.
C13_ApprovalRejectionStopsBridge ==
    \A r \in DOMAIN pc :
        \A i \in Events(r, "reject", opApproval) :
            /\ outcome[r] = Rejected(trace[r][i].arg)
            /\ pc[r] = "done"
            /\ NumCalls(r, opBridge) = 0
            /\ \A op \in LaterOps : NumCalls(r, op) = 0

C13_Witness ==
    \E r \in DOMAIN pc :
        /\ Events(r, "reject", opApproval) # {}
        /\ quoteResponse[r].quote.srcAsset.address # zeroAddress
        /\ quoteResponse[r].quote.destAsset.address # zeroAddress
        /\ outcome[r] = Rejected([message |-> "E2"])

\* The calls a run with the quote and the bridge result of r has made when it
\* awaits addDestToken.
OrderUpToDest(r) ==
    (IF quoteResponse[r].approval.defined THEN <<opApproval>> ELSE <<>>)
    \o <<opBridge>>
    \o (IF bridgeTxMeta[r].val.hash.defined /\ bridgeTxMeta[r].val.hash.val # ""
        THEN <<opPoll>> ELSE <<>>)
    \o (IF quoteResponse[r].quote.srcAsset.address = zeroAddress
        THEN <<>> ELSE <<opSrcToken>>)
    \o <<opDestToken>>

\* C14: if addDestToken rejects with e, the promise of submitBridgeTransaction
\* rejects with e, neither the setActiveTab dispatch nor navigation occurs, and
\* the calls already made stay as they are: no call follows the rejection.
C14_DestRejectionNoCleanup ==
    \A r \in DOMAIN pc :
        \A i \in Events(r, "reject", opDestToken) :
            /\ outcome[r] = Rejected(trace[r][i].arg)
            /\ pc[r] = "done"
            /\ NumCalls(r, opActiveTab) = 0
            /\ NumCalls(r, opNavigate) = 0
            /\ \A j \in DOMAIN trace[r] : trace[r][j].ev = "call" => j < i
            /\ CallOrder(r) = OrderUpToDest(r)

C14_Witness ==
    \E r \in DOMAIN pc :
        /\ Events(r, "reject", opDestToken) # {}
        /\ CallOrder(r) = <<opApproval, opBridge, opPoll, opSrcToken, opDestToken>>
        /\ inflight[r] = {}

\* C15: no transaction is retried: in every state of a run handleApprovalTx has
\* been called at most once and handleBridgeTx at most once, and handleBridgeTx
\* has been called exactly once as soon as the approval step was skipped or resolved.
C15_NoRetry ==
    \A r \in DOMAIN pc :
        /\ NumCalls(r, opApproval) <= 1
        /\ NumCalls(r, opBridge) <= 1
        /\ (pc[r] # "start" /\ ~quoteResponse[r].approval.defined) =>
            NumCalls(r, opBridge) = 1
        /\ Events(r, "resolve", opApproval) # {} => NumCalls(r, opBridge) = 1

C15_Witness ==
    \E r \in DOMAIN pc :
        /\ Events(r, "resolve", opApproval) # {}
        /\ Events(r, "reject", opBridge) # {}
        /\ pc[r] = "done"
        /\ NumCalls(r, opBridge) = 1

\* C16: the quote passed to handleApprovalTx and to handleBridgeTx is the quote
\* given to submitBridgeTransaction, the approval passed is the quote's, and
\* when the approval step has run, the approvalTxId passed to handleBridgeTx is
\* the id of the TransactionMeta handleApprovalTx resolved with in this run.
C16_BridgeGetsApprovalId ==
    \A r \in DOMAIN pc :
        /\ \A i \in Calls(r, opApproval) :
            /\ trace[r][i].arg.quoteResponse = quoteResponse[r]
            /\ trace[r][i].arg.approval = quoteResponse[r].approval
        /\ \A j \in Calls(r, opBridge) :
            /\ trace[r][j].arg.quoteResponse = quoteResponse[r]
            /\ \A k \in Events(r, "resolve", opApproval) :
                trace[r][j].arg.approvalTxId = Some(trace[r][k].arg.id)
            /\ quoteResponse[r].approval.defined =>
                Events(r, "resolve", opApproval) # {}

C16_Witness ==
    \E r \in DOMAIN pc :
        \E j \in Calls(r, opBridge), k \in Events(r, "resolve", opApproval) :
            /\ trace[r][k].arg.id = "tx2"
            /\ trace[r][j].arg.approvalTxId = Some("tx2")

\* C17: the StatusRequest of every poll dispatch is made of the quote and the
\* bridge result only: srcTxHash is the hash of the bridge TransactionMeta,
\* bridge the first of the quote's candidate bridges (undefined when there is
\* none), bridgeId, srcChainId, destChainId and quote those of the quote, and
\* refuel a boolean, true exactly when the quote's refuel flag is true.
C17_StatusRequestDerived ==
    \A r \in DOMAIN pc :
        \A j \in Calls(r, opPoll) :
            LET sr == trace[r][j].arg.statusRequest
                q == quoteResponse[r].quote
            IN  /\ DOMAIN sr = {"bridgeId", "srcTxHash", "bridge", "srcChainId",
                                "destChainId", "quote", "refuel"}
                /\ sr.srcTxHash = bridgeTxMeta[r].val.hash
                /\ sr.bridge = IF q.bridges = <<>> THEN Undefined ELSE Some(Head(q.bridges))
                /\ sr.bridgeId = q.bridgeId
                /\ sr.srcChainId = q.srcChainId
                /\ sr.destChainId = q.destChainId
                /\ sr.quote = q
                /\ sr.refuel \in BOOLEAN
                /\ sr.refuel = (q.refuel = Some(TRUE))
                /\ trace[r][j].arg.quoteResponse = quoteResponse[r]

C17_Witness ==
    \E r \in DOMAIN pc :
        \E j \in Calls(r, opPoll) :
            /\ quoteResponse[r].quote.bridges = <<"hop", "across">>
            /\ quoteResponse[r].quote.refuel = Undefined
            /\ trace[r][j].arg.statusRequest.bridge = Some("hop")
            /\ trace[r][j].arg.statusRequest.refuel = FALSE

\* The suspension points of submitBridgeTransaction and the call each awaits.
AwaitStates == {"awaitApproval", "awaitBridge", "awaitDest", "awaitTab"}

AwaitedAt(p) ==
    CASE p = "awaitApproval" -> opApproval
      [] p = "awaitBridge" -> opBridge
      [] p = "awaitDest" -> opDestToken
      [] p = "awaitTab" -> opActiveTab

\* A step leaves a suspended run r as it is (no call, no move, no settlement of
\* its promise) unless the step is the settlement of the call r awaits.
ResumedOnlyBySettlement(r) ==
    pc[r] \in AwaitStates =>
        LET new == SubSeq(trace'[r], Len(trace[r]) + 1, Len(trace'[r]))
        IN  \/ /\ new # <<>>
               /\ new[1].ev \in {"resolve", "reject"}
               /\ new[1].op = AwaitedAt(pc[r])
            \/ /\ pc'[r] = pc[r]
               /\ outcome'[r] = outcome[r]
               /\ \A i \in DOMAIN new : new[i].ev # "call"

\* C18: there is no timeout and no cancellation.  A suspended run is pending,
\* and as long as the call it awaits has not settled no step moves it, settles
\* its promise or makes a call for it; and if every awaited call eventually
\* settles (FairSpec), every started run eventually settles.
C18_HangsUntilSettled ==
    /\ [](\A r \in Runs : pc[r] \in AwaitStates => outcome[r] = Pending)
    /\ [][\A r \in Runs : ResumedOnlyBySettlement(r)]_vars
    /\ \A r \in Runs : (pc[r] # "start") ~> (outcome[r] # Pending)

C18_Witness ==
    \E r \in DOMAIN pc :
        /\ pc[r] = "awaitDest"
        /\ outcome[r] = Pending
        /\ inflight[r] = {}
        /\ Events(r, "resolve", opSrcToken) # {}
        /\ Events(r, "resolve", opPoll) # {}

\* No call is made in r after position j of its trace.
LastCall(r, j) == \A i \in DOMAIN trace[r] : trace[r][i].ev = "call" => i <= j

\* C19 as stated: a run at step 6 has dispatched setActiveTab('activity')
\* once; every navigation goes to the default route, comes after the
\* resolution of that dispatch and is the last call of the run; a fulfilled
\* run has navigated exactly once, a rejected or unfinished run never.
C19_Original_RejectedNeverNavigates ==
    \A r \in DOMAIN pc :
        /\ \A i \in Calls(r, opActiveTab) : trace[r][i].arg.tabName = "activity"
        /\ (pc[r] = "awaitTab" \/ outcome[r] = Fulfilled) => NumCalls(r, opActiveTab) = 1
        /\ \A j \in Calls(r, opNavigate) :
            /\ trace[r][j].arg.path = DEFAULT_ROUTE
            /\ \E i \in Calls(r, opActiveTab), k \in Events(r, "resolve", opActiveTab) :
                i < k /\ k < j
            /\ LastCall(r, j)
        /\ NumCalls(r, opNavigate) = IF outcome[r] = Fulfilled THEN 1 ELSE 0

\* C19, amended: as above, but a run has navigated exactly once when it is
\* fulfilled or rejected with what history.push itself threw, and never
\* otherwise.
C19_TabThenNavigateLast ==
    \A r \in DOMAIN pc :
        /\ \A i \in Calls(r, opActiveTab) : trace[r][i].arg.tabName = "activity"
        /\ (pc[r] = "awaitTab" \/ outcome[r] = Fulfilled) => NumCalls(r, opActiveTab) = 1
        /\ \A j \in Calls(r, opNavigate) :
            /\ trace[r][j].arg.path = DEFAULT_ROUTE
            /\ \E i \in Calls(r, opActiveTab), k \in Events(r, "resolve", opActiveTab) :
                i < k /\ k < j
            /\ LastCall(r, j)
        /\ \A i \in Events(r, "throw", opNavigate) :
            /\ outcome[r] = Rejected(trace[r][i].arg)
            /\ \E j \in Calls(r, opNavigate) : i = j + 1
        /\ NumCalls(r, opNavigate) =
            IF outcome[r] = Fulfilled \/ Events(r, "throw", opNavigate) # {}
            THEN 1 ELSE 0

C19_Witness ==
    \E r \in DOMAIN pc :
        /\ \E i \in Events(r, "throw", opNavigate) : outcome[r] = Rejected(trace[r][i].arg)
        /\ NumCalls(r, opNavigate) = 1
        /\ quoteResponse[r].approval.defined
        /\ inflight[r] = {}
        /\ \E j \in Calls(r, opNavigate) : j < Len(trace[r])

\* C20: if the setActiveTab dispatch rejects with e, the promise of
\* submitBridgeTransaction rejects with e and navigate is never called, although
\* handleBridgeTx has been called and has resolved (and polling may have begun).
C20_TabRejectionNoNavigation ==
    \A r \in DOMAIN pc :
        \A i \in Events(r, "reject", opActiveTab) :
            /\ outcome[r] = Rejected(trace[r][i].arg)
            /\ pc[r] = "done"
            /\ NumCalls(r, opNavigate) = 0
            /\ \A j \in DOMAIN trace[r] : trace[r][j].ev = "call" => j < i
            /\ NumCalls(r, opBridge) = 1
            /\ \E k \in Events(r, "resolve", opBridge) : k < i

C20_Witness ==
    \E r \in DOMAIN pc :
        /\ Events(r, "reject", opActiveTab) # {}
        /\ NumCalls(r, opPoll) = 1
        /\ opPoll \in inflight[r]
        /\ NumCalls(r, opNavigate) = 0

\* C21: overlapping invocations do not interfere.  Under every interleaving the
\* approvalTxId of a run's bridge submission is the id its own approval call
\* resolved with (undefined when it made none), its poll dispatch carries the
\* hash and the time its own bridge submission resolved with, and a run that
\* has not started can start whatever the other run is doing.
C21_OverlappingRunsIndependent ==
    \A r \in DOMAIN pc :
        /\ \A j \in Calls(r, opBridge) :
            /\ trace[r][j].arg.quoteResponse = quoteResponse[r]
            /\ Events(r, "resolve", opApproval) = {} =>
                trace[r][j].arg.approvalTxId = Undefined
            /\ \A k \in Events(r, "resolve", opApproval) :
                trace[r][j].arg.approvalTxId = Some(trace[r][k].arg.id)
        /\ \A j \in Calls(r, opPoll) :
            \E k \in Events(r, "resolve", opBridge) :
                /\ k < j
                /\ trace[r][j].arg.statusRequest.srcTxHash = trace[r][k].arg.hash
                /\ trace[r][j].arg.startTime = trace[r][k].arg.time
                /\ trace[r][j].arg.quoteResponse = quoteResponse[r]
        /\ pc[r] = "start" => ENABLED Submit(r)

C21_Witness ==
    /\ DOMAIN pc = OverlapRuns
    /\ \E j \in Calls("run1", opBridge) : trace["run1"][j].arg.approvalTxId = Some("tx1")
    /\ \E j \in Calls("run2", opBridge) : trace["run2"][j].arg.approvalTxId = Undefined
    /\ \E j \in Calls("run1", opPoll), k \in Calls("run2", opPoll) :
        /\ trace["run1"][j].arg.startTime = 1
        /\ trace["run2"][k].arg.startTime = MaxTime
    /\ pc["run1"] = "awaitDest"
    /\ pc["run2"] = "awaitTab"

----------------------------------------------------------------------------
(* useDebounce.  A render commits in one action; its effect is a passive     *)
(* effect, which React runs later, in RunEffect, and at the latest before    *)
(* the next render or the unmount.  Time passes in Tick; a timeout whose     *)
(* delay has run out calls back in Fire, when the event loop gets to it.     *)

\* The delay of setTimeout when the argument delay is undefined.
DefaultDelay == 500

\* The delay BankPage passes.
AmountDelay == 400

\* Time passes in steps of at most TickMs ms.
TickMs == 100

\* After a change the event loop is late by at most MaxLate ms in all, in
\* running the effect and in calling back a timeout that is due.
MaxLate == 100

\* The values the hook is rendered with: the amounts of the bank page.
Values == {0, 100, 250}

Delays == {Undefined, Some(0), Some(AmountDelay)}

\* delay ?? 500
EffectiveDelay(d) == IF d.defined THEN d.val ELSE DefaultDelay

\* setTimeout(() => setDebouncedValue(value), delay ?? 500): the callback
\* captures the value of the render whose effect this is.
NewTimer(v, d) == [value |-> v, remaining |-> EffectiveDelay(d)]

\* The effect's cleanup: clearTimeout(timer).  What is left pending of the
\* timeouts ts, the effect's own among them.
Cleanup(ts) == {}

\* Mutant: the dependency array is [delay].
DepsChanged_OmitValue(v, d) == d # delay

\* The dependency array [value, delay] against the previous render's.
DepsChanged(v, d) == v # value \/ d # delay

Min(a, b) == IF a <= b THEN a ELSE b

\* The first render has committed: useState(value); its effect is to run.
InitDebounce ==
    /\ mounted = TRUE
    /\ value \in Values
    /\ delay \in Delays
    /\ debouncedValue = value
    /\ timers = {}
    /\ effectPending = TRUE
    /\ elapsed = 0
    /\ late = 0
    /\ lastPublished = Undefined
    /\ superseded = {}
    /\ NoRuns /\ NoWallet /\ NoFee

\* A later render with the arguments v and d commits.  React has run a
\* pending effect before it renders again.
Render(v, d) ==
    /\ mounted
    /\ ~effectPending
    /\ IF DepsChanged(v, d)
       THEN /\ effectPending' = TRUE
            /\ elapsed' = 0
            /\ late' = 0
            /\ superseded' = (superseded \cup {t.value : t \in timers}) \ {v}
       ELSE UNCHANGED <<effectPending, elapsed, late, superseded>>
    /\ value' = v
    /\ delay' = d
    /\ UNCHANGED <<mounted, debouncedValue, timers, lastPublished>>
    /\ UNCHANGED <<vars, walletVars, feeVars>>

\* The effect of the latest render runs: the cleanup of the previous effect,
\* then setTimeout.
RunEffect ==
    /\ mounted
    /\ effectPending
    /\ timers' = Cleanup(timers) \cup {NewTimer(value, delay)}
    /\ effectPending' = FALSE
    /\ UNCHANGED <<mounted, value, delay, debouncedValue, elapsed, late,
                   lastPublished, superseded>>
    /\ UNCHANGED <<vars, walletVars, feeVars>>

\* The ms until the first of the timeouts ts is due.
NextDue(ts) ==
    CHOOSE m \in {t.remaining : t \in ts} : \A t \in ts : m <= t.remaining

\* Time passes: TickMs ms, or less when a timeout is due before.  While the
\* effect or a due timeout waits, the event loop is late.
Tick ==
    /\ timers # {} \/ effectPending
    /\ LET waits == effectPending \/ NextDue(timers) = 0
           step == IF timers # {} /\ NextDue(timers) > 0
                   THEN Min(TickMs, NextDue(timers)) ELSE TickMs
       IN  /\ waits => late + step <= MaxLate
           /\ timers' = {[t EXCEPT !.remaining = IF @ > step THEN @ - step ELSE 0] :
                           t \in timers}
           /\ elapsed' = elapsed + step
           /\ late' = IF waits THEN late + step ELSE late
    /\ UNCHANGED <<mounted, value, delay, debouncedValue, effectPending,
                   lastPublished, superseded>>
    /\ UNCHANGED <<vars, walletVars, feeVars>>

\* The timeout t calls back: setDebouncedValue(value), value as captured.
Fire(t) ==
    /\ t \in timers
    /\ t.remaining = 0
    /\ debouncedValue' = t.value
    /\ timers' = timers \ {t}
    /\ lastPublished' = Some([value |-> t.value, input |-> value, delay |-> delay,
                              elapsed |-> elapsed, superseded |-> superseded])
    /\ UNCHANGED <<mounted, value, delay, effectPending, elapsed, late, superseded>>
    /\ UNCHANGED <<vars, walletVars, feeVars>>

\* The component unmounts: React runs a pending effect, then the cleanup.
Unmount ==
    /\ mounted
    /\ mounted' = FALSE
    /\ timers' = Cleanup(IF effectPending
                         THEN Cleanup(timers) \cup {NewTimer(value, delay)}
                         ELSE timers)
    /\ effectPending' = FALSE
    /\ UNCHANGED <<value, delay, debouncedValue, elapsed, late, lastPublished, superseded>>
    /\ UNCHANGED <<vars, walletVars, feeVars>>

TimerFires == \E t \in timers : Fire(t)

NextDebounce ==
    \/ \E v \in Values, d \in Delays : Render(v, d)
    \/ RunEffect
    \/ Tick
    \/ TimerFires
    \/ Unmount

SpecDebounce == InitDebounce /\ [][NextDebounce]_allVars

\* useDebounce as BankPage calls it: useDebounce(amount, 400).  The delay of
\* every render is the one of the first.
InitAmountDebounce ==
    /\ InitDebounce
    /\ delay = Some(AmountDelay)

NextAmountDebounce ==
    \/ \E v \in Values : Render(v, delay)
    \/ RunEffect
    \/ Tick
    \/ TimerFires
    \/ Unmount

SpecAmountDebounce == InitAmountDebounce /\ [][NextAmountDebounce]_allVars

\* React runs a pending effect, time passes, and the event loop calls back a
\* timeout that is due.
FairAmountDebounce ==
    /\ SpecAmountDebounce
    /\ WF_allVars(RunEffect)
    /\ WF_allVars(Tick)
    /\ WF_allVars(TimerFires)

\* C22: at most one timeout is pending and none once unmounted; every
\* publication happens no sooner than delay ms (500 when delay is undefined)
\* after the latest change of value or delay, publishes the latest value, and
\* never a value that a later change superseded.
C22_PublishesLatestAfterDelay ==
    /\ Cardinality(timers) <= 1
    /\ ~mounted => timers = {}
    /\ lastPublished.defined =>
        LET p == lastPublished.val
        IN  /\ p.value = p.input
            /\ p.elapsed >= IF p.delay.defined THEN p.delay.val ELSE 500
            /\ p.value \notin p.superseded

\* C23: the debounced value is the input on mount, and when the value stops
\* changing while the component stays mounted the debounced value eventually
\* equals it for good.
C23_ValueSettles ==
    /\ debouncedValue = value
    /\ \A v \in Values :
        ([]mounted /\ <>[](value = v)) => <>[](debouncedValue = v)

C23_Witness ==
    /\ mounted
    /\ lastPublished.defined
    /\ lastPublished.val.superseded # {}
    /\ lastPublished.val.delay = Some(AmountDelay)
    /\ lastPublished.val.elapsed > AmountDelay
    /\ debouncedValue = value
    /\ value = 100
    /\ timers = {}
    /\ ~effectPending

----------------------------------------------------------------------------
(* getHarbourWallet.  The signer BankPage gives to RampClient calls it for   *)
(* every request it signs; on first load the account-info request and the    *)
(* fee-estimate request are issued by two effects of the same commit, so two *)
(* calls are under way together.  Each action is one synchronous segment of  *)
(* a call, between two awaits; browser.storage.local is the environment.     *)

\* The calls of getHarbourWallet under way together: one per signed request.
WalletCalls == {"getAccountInfo", "estimateOnRampFee"}

\* A key stored by an earlier session.
StoredKey == "0xk0"

\* What `0x${c.randomBytes(32).toString('hex')}` can evaluate to.
RandomKeys == {"0xk1", "0xk2"}

InitWallet ==
    /\ harbourKey \in {Undefined, Some(StoredKey)}
    /\ walletPc = [c \in WalletCalls |-> "idle"]
    /\ walletKey = [c \in WalletCalls |-> Undefined]
    /\ wallet = [c \in WalletCalls |-> Undefined]
    /\ writes = IF harbourKey.defined THEN <<harbourKey.val>> ELSE <<>>
    /\ NoRuns /\ NoHook /\ NoFee

\* The signer calls getHarbourWallet: browser.storage.local.get is awaited.
WalletCalled(c) ==
    /\ walletPc[c] \in {"idle", "done"}
    /\ walletPc' = [walletPc EXCEPT ![c] = "awaitGet"]
    /\ walletKey' = [walletKey EXCEPT ![c] = Undefined]
    /\ UNCHANGED <<harbourKey, wallet, writes>>
    /\ UNCHANGED <<vars, hookVars, feeVars>>

\* storage.get resolves with what storage holds.  With a key the call returns
\* its Wallet; without one it generates a key and awaits storage.set.
GetResolves(c) ==
    /\ walletPc[c] = "awaitGet"
    /\ IF TruthyString(harbourKey)
       THEN /\ wallet' = [wallet EXCEPT ![c] = harbourKey]
            /\ walletPc' = [walletPc EXCEPT ![c] = "done"]
            /\ UNCHANGED walletKey
       ELSE /\ \E key \in RandomKeys :
                walletKey' = [walletKey EXCEPT ![c] = Some(key)]
            /\ walletPc' = [walletPc EXCEPT ![c] = "awaitSet"]
            /\ UNCHANGED wallet
    /\ UNCHANGED <<harbourKey, writes>>
    /\ UNCHANGED <<vars, hookVars, feeVars>>

\* storage.set({ harbourKey: key }) resolves: the key is stored and the call
\* returns its Wallet.
SetResolves(c) ==
    /\ walletPc[c] = "awaitSet"
    /\ harbourKey' = walletKey[c]
    /\ writes' = Append(writes, walletKey[c].val)
    /\ wallet' = [wallet EXCEPT ![c] = walletKey[c]]
    /\ walletPc' = [walletPc EXCEPT ![c] = "done"]
    /\ UNCHANGED walletKey
    /\ UNCHANGED <<vars, hookVars, feeVars>>

NextWallet ==
    \/ \E c \in DOMAIN walletPc : WalletCalled(c)
    \/ \E c \in DOMAIN walletPc : GetResolves(c)
    \/ \E c \in DOMAIN walletPc : SetResolves(c)

SpecWallet == InitWallet /\ [][NextWallet]_allVars

\* C24: the Harbour signing key is stable.  Storage never holds a second,
\* different harbourKey, and all the wallets returned are for one key, the
\* stored one.
C24_KeyStable ==
    /\ \A i \in 1..Len(writes) : writes[i] = writes[1]
    /\ \A c \in DOMAIN wallet :
        wallet[c].defined =>
            /\ wallet[c] = harbourKey
            /\ \A d \in DOMAIN wallet : wallet[d].defined => wallet[d] = wallet[c]

----------------------------------------------------------------------------
(* The fee estimate of BankPage.  A commit is one action: a state change and *)
(* the re-render.  The effect of useDebounce and the fee effect are passive  *)
(* effects: when a commit changed their dependencies React runs them later,  *)
(* in EffectsRun, or before the render a timeout of useDebounce causes.  The *)
(* timeouts of useDebounce call back in AmountDebounced, each with the       *)
(* amount it captured; when they are due is left open here.  RampClient is  *)
(* the environment: each promise it returned settles in an action of its     *)
(* own, in any order.                                                        *)

\* At most MaxRequests fee estimates are requested.
MaxRequests == 3

\* The amounts: the initial 250, an amount typed in, and 0 (falsy, as is the
\* NaN of an emptied input).
Amounts == {0, 100, 250}

EUR == "CURRENCY_ID_EUR"

GBP == "CURRENCY_ID_GBP"

\* What getAccountInfo resolves with, as far as fetchBankDetails tells apart.
AccountInfoResults == {"authentication", "IBAN", "SCAN", "none"}

\* What is thrown, or what a promise rejects with: an Error or something else.
Thrown == {[isError |-> TRUE, message |-> "E1"], [isError |-> FALSE, message |-> ""]}

\* err instanceof Error ? err.message : 'An error occurred'
ErrorMessage(err) == IF err.isError THEN err.message ELSE "An error occurred"

Digits == <<"0", "1", "2", "3", "4", "5", "6", "7", "8", "9">>

\* Number.prototype.toString of a natural number.
RECURSIVE NumberToString(_)
NumberToString(n) ==
    IF n < 10
    THEN Digits[n + 1]
    ELSE NumberToString(n \div 10) \o Digits[(n % 10) + 1]

\* new EstimateOnRampFeeRequest({...})
FeeRequest(a, c) ==
    [cryptoAssetId |-> "ASSET_ID_USDC", protocol |-> "POLYGON",
     amount |-> [value |-> NumberToString(a), case |-> "fiatAssetAmount"],
     fiatAssetId |-> c]

\* The response to the i-th request.
FeeResponse(i) == [to |-> i, request |-> requests[i].request]

\* The bankDetails fetchBankDetails sets for an account-info result:
\* setBankDetails({}), then with coordinates for an IBAN or a SCAN account.
BankDetailsFor(result) ==
    IF result \in {"IBAN", "SCAN"}
    THEN Some([coordinates |-> Some(result)])
    ELSE Some([coordinates |-> Undefined])

\* The page renders the amount input: it is past the early returns for
\* isLoading, error and !bankDetails, and bankDetails has coordinates.
AmountInputShown ==
    /\ ~isLoading
    /\ ~TruthyString(error)
    /\ bankDetails.defined
    /\ bankDetails.val.coordinates.defined

\* The currency fetchBankDetails sets for an account-info result.
CurrencyFor(result) ==
    IF result = "IBAN" THEN EUR ELSE IF result = "SCAN" THEN GBP ELSE currency

\* The fee effect asks for an estimate when debouncedAmount = a and
\* currency = c are both truthy.
WillRequest(a, c) == a # 0 /\ c # ""

\* The fee effect, run with debouncedAmount = a and currency = c.  The call of
\* estimateOnRampFee returns a promise, or it throws err.
EstimateFee(a, c, throws, err) ==
    IF WillRequest(a, c)
    THEN IF throws
         THEN /\ error' = Some(ErrorMessage(err))
              /\ feeLoading' = FALSE
              /\ feeResults' = Undefined
              /\ UNCHANGED requests
         ELSE /\ feeLoading' = TRUE
              /\ requests' = Append(requests, [request |-> FeeRequest(a, c),
                                               state |-> "pending"])
              /\ UNCHANGED <<feeResults, error>>
    ELSE UNCHANGED <<feeLoading, feeResults, error, requests>>

\* The first render has committed with the useState initial values; its
\* effects are to run.
InitFee ==
    /\ accountInfo = "idle"
    /\ isLoading = TRUE
    /\ bankDetails = Undefined
    /\ amount = 250
    /\ debounceTimers = {}
    /\ debounceEffectPending = TRUE
    /\ debouncedAmount = 250
    /\ currency = EUR
    /\ feeEffectPending = TRUE
    /\ feeLoading = FALSE
    /\ feeResults = Undefined
    /\ error = Undefined
    /\ requests = <<>>
    /\ arrivals = <<>>
    /\ NoRuns /\ NoHook /\ NoWallet

\* The effects of the first commit run, one after the other in the same task:
\* useDebounce sets its timeout, fetchBankDetails calls getAccountInfo, then
\* the fee effect runs.
PageMounts(throws, err) ==
    /\ accountInfo = "idle"
    /\ accountInfo' = "pending"
    /\ debounceTimers' = Cleanup(debounceTimers) \cup {amount}
    /\ debounceEffectPending' = FALSE
    /\ EstimateFee(debouncedAmount, currency, throws, err)
    /\ feeEffectPending' = FALSE
    /\ UNCHANGED <<isLoading, bankDetails, amount, debouncedAmount, currency, arrivals>>
    /\ UNCHANGED <<vars, hookVars, walletVars>>

\* The user changes the amount input: onChange calls setAmount and the page
\* re-renders.  The input is there only while the page shows it.  React has
\* run a pending effect of useDebounce before it renders again.
AmountTyped(a) ==
    /\ accountInfo # "idle"
    /\ AmountInputShown
    /\ ~debounceEffectPending
    /\ a # amount
    /\ amount' = a
    /\ debounceEffectPending' = TRUE
    /\ UNCHANGED <<accountInfo, isLoading, bankDetails, debounceTimers, debouncedAmount,
                   currency, feeEffectPending, feeLoading, feeResults, error, requests,
                   arrivals>>
    /\ UNCHANGED <<vars, hookVars, walletVars>>

\* A timeout of useDebounce calls back: setDebouncedValue(t), t the amount it
\* captured.  Until the effect of a later change has run, the timeout of the
\* previous amount is still pending.  When t is the debounced amount already,
\* React renders nothing.  Otherwise React first runs the effects that are
\* pending (the effect of useDebounce: the cleanup, then setTimeout; the fee
\* effect, for the debounced amount so far), then re-renders the page with
\* debouncedAmount = t, and the fee effect is to run again.
AmountDebounced(t, throws, err) ==
    /\ accountInfo # "idle"
    /\ t \in debounceTimers
    /\ IF t = debouncedAmount
       THEN /\ debounceTimers' = debounceTimers \ {t}
            /\ UNCHANGED <<debounceEffectPending, debouncedAmount, feeEffectPending,
                           feeLoading, feeResults, error, requests>>
       ELSE /\ debounceTimers' = IF debounceEffectPending
                                 THEN Cleanup(debounceTimers \ {t}) \cup {amount}
                                 ELSE debounceTimers \ {t}
            /\ debounceEffectPending' = FALSE
            /\ IF feeEffectPending
               THEN EstimateFee(debouncedAmount, currency, throws, err)
               ELSE UNCHANGED <<feeLoading, feeResults, error, requests>>
            /\ WillRequest(t, currency) => Len(requests') < MaxRequests
            /\ debouncedAmount' = t
            /\ feeEffectPending' = TRUE
    /\ UNCHANGED <<accountInfo, isLoading, bankDetails, amount, currency, arrivals>>
    /\ UNCHANGED <<vars, hookVars, walletVars>>

\* getAccountInfo resolves: setBankDetails, setCurrency for an IBAN or a SCAN
\* account, setIsLoading(false), and the page re-renders.
AccountInfoResolves(result) ==
    /\ accountInfo = "pending"
    /\ ~feeEffectPending
    /\ CurrencyFor(result) # currency /\ WillRequest(debouncedAmount, CurrencyFor(result))
           => Len(requests) < MaxRequests
    /\ accountInfo' = "resolved"
    /\ bankDetails' = BankDetailsFor(result)
    /\ currency' = CurrencyFor(result)
    /\ isLoading' = FALSE
    /\ feeEffectPending' = (CurrencyFor(result) # currency)
    /\ UNCHANGED <<amount, debounceTimers, debounceEffectPending, debouncedAmount,
                   feeLoading, feeResults, error, requests, arrivals>>
    /\ UNCHANGED <<vars, hookVars, walletVars>>

\* The pending effects of the latest commit run: the effect of useDebounce
\* (the cleanup of its previous run, then setTimeout), then the fee effect.
EffectsRun(throws, err) ==
    /\ accountInfo # "idle"
    /\ debounceEffectPending \/ feeEffectPending
    /\ debounceTimers' = IF debounceEffectPending
                         THEN Cleanup(debounceTimers) \cup {amount}
                         ELSE debounceTimers
    /\ debounceEffectPending' = FALSE
    /\ IF feeEffectPending
       THEN EstimateFee(debouncedAmount, currency, throws, err)
       ELSE UNCHANGED <<feeLoading, feeResults, error, requests>>
    /\ feeEffectPending' = FALSE
    /\ UNCHANGED <<accountInfo, isLoading, bankDetails, amount, debouncedAmount,
                   currency, arrivals>>
    /\ UNCHANGED <<vars, hookVars, walletVars>>

\* getAccountInfo rejects: the catch of fetchBankDetails sets error, its
\* finally setIsLoading(false).
AccountInfoRejects(err) ==
    /\ accountInfo = "pending"
    /\ accountInfo' = "rejected"
    /\ error' = Some(ErrorMessage(err))
    /\ isLoading' = FALSE
    /\ UNCHANGED <<bankDetails, amount, debounceTimers, debounceEffectPending,
                   debouncedAmount, currency, feeEffectPending, feeLoading,
                   feeResults, requests, arrivals>>
    /\ UNCHANGED <<vars, hookVars, walletVars>>

\* The i-th estimateOnRampFee promise resolves: the .then callback runs.
EstimateResolves(i) ==
    /\ requests[i].state = "pending"
    /\ requests' = [requests EXCEPT ![i].state = "resolved"]
    /\ arrivals' = Append(arrivals, i)
    /\ feeResults' = Some(FeeResponse(i))
    /\ feeLoading' = FALSE
    /\ UNCHANGED <<accountInfo, isLoading, bankDetails, amount, debounceTimers,
                   debounceEffectPending, debouncedAmount, currency, feeEffectPending,
                   error>>
    /\ UNCHANGED <<vars, hookVars, walletVars>>

\* The i-th estimateOnRampFee promise rejects: no callback is registered for it.
EstimateRejects(i) ==
    /\ requests[i].state = "pending"
    /\ requests' = [requests EXCEPT ![i].state = "rejected"]
    /\ arrivals' = Append(arrivals, i)
    /\ UNCHANGED <<accountInfo, isLoading, bankDetails, amount, debounceTimers,
                   debounceEffectPending, debouncedAmount, currency, feeEffectPending,
                   feeLoading, feeResults, error>>
    /\ UNCHANGED <<vars, hookVars, walletVars>>

NextFee ==
    \/ \E throws \in BOOLEAN, err \in Thrown : PageMounts(throws, err)
    \/ \E a \in Amounts : AmountTyped(a)
    \/ \E t \in debounceTimers, throws \in BOOLEAN, err \in Thrown :
           AmountDebounced(t, throws, err)
    \/ \E result \in AccountInfoResults : AccountInfoResolves(result)
    \/ \E throws \in BOOLEAN, err \in Thrown : EffectsRun(throws, err)
    \/ \E err \in Thrown : AccountInfoRejects(err)
    \/ \E i \in DOMAIN requests : EstimateResolves(i)
    \/ \E i \in DOMAIN requests : EstimateRejects(i)

SpecFee == InitFee /\ [][NextFee]_allVars

\* C25: once every fee-estimate request has got its response, none having
\* failed, feeResults is the response to the latest request, the one issued
\* for the current (debouncedAmount, currency) pair, whatever the order of the
\* responses.
C25_LatestResponseShown ==
    (/\ requests # <<>>
     /\ ~error.defined
     /\ \A i \in DOMAIN requests : requests[i].state = "resolved"
     /\ requests[Len(requests)].request.amount.value = NumberToString(debouncedAmount)
     /\ requests[Len(requests)].request.fiatAssetId = currency)
        => feeResults = Some(FeeResponse(Len(requests)))

\* C26: feeLoading is true exactly while a fee-estimate request is
\* outstanding (as long as the page has reported no error), and after a
\* request was rejected error is set and feeResults is cleared.
C26_LoadingTracksOutstanding ==
    /\ ~error.defined =>
        (feeLoading <=> \E i \in DOMAIN requests : requests[i].state = "pending")
    /\ \A k \in DOMAIN arrivals :
        (k = Len(arrivals) /\ requests[arrivals[k]].state = "rejected")
            => error.defined /\ ~feeResults.defined

=============================================================================
